---- MODULE Spec2Model ----
(***************************************************************************)
(* Verification model of src/src/graph_sim.py: the GraphSim network's      *)
(* feature-width bookkeeping and histogram feature, and the               *)
(* GraphSimTrainer's train / validate / test control flow.                 *)
(*                                                                         *)
(* Three specifications share the variables:                               *)
(*   SpecModel  GraphSim: construction, forward, calculate_histogram       *)
(*   Spec       GraphSimTrainer.train() with process_batch and validate()  *)
(*   SpecTest   GraphSimTrainer: load/save, train() and test()             *)
(* Floating-point quantities (losses, validation errors, embeddings) are   *)
(* drawn from small integer sets; a histogram entry is kept as the exact   *)
(* fraction num[i] / den.                                                  *)
(***************************************************************************)
EXTENDS Integers, Sequences, FiniteSets

\* ---------------------------------------------------------------- bounds
MaxNeurons == 2      \* args.tensor_neurons ranges over 1..MaxNeurons
MaxHidden == 2       \* args.hidden_size ranges over 1..MaxHidden
MaxNodes == 2        \* nodes per graph: 0..MaxNodes
MaxEmb == 1          \* a node embedding (one column) ranges over -MaxEmb..MaxEmb
BinsVals == {1, 2, 3, 8}   \* args.bins
MaxEpochs == 3       \* args.epochs ranges over 0..MaxEpochs
MaxBatch == 2        \* args.batch_size ranges over 1..MaxBatch
MaxPairs == 3        \* len(training_graph_index_pairs) ranges over 0..MaxPairs
MaxLoss == 2         \* a per-pair MSE loss ranges over 1..MaxLoss
MaxTest == 4         \* len(test_graph_index_pairs) ranges over 0..MaxTest
MaxQuery == 3        \* len(test_graphs) ranges over 1..MaxQuery

\* self.min_error = 100 at the start of train()
InitMinError == 100

VARIABLES
    \* ---- GraphSim
    args,            \* the feature flags and sizes of self.args
    built,           \* GraphSim.__init__ has run
    feature_count,   \* self.feature_count
    fwd,             \* outcome of the last forward(data)
    hist,            \* outcome of the last calculate_histogram(...)
    \* ---- GraphSimTrainer: configuration, dataset, files
    targs,           \* args.validate, args.epochs, args.batch_size
    training_graph_index_pairs,   \* dataset.training_graph_index_pairs
    test_pairs,      \* len(dataset.test_graph_index_pairs)
    test_graphs,     \* len(dataset.test_graphs)
    best_file,       \* the file at args.best_model_path: <<>> or <<parameters>>
    save_file,       \* the file at args.save_path = args.load_path
    \* ---- GraphSimTrainer: the object
    pc,              \* where the trainer's caller is
    err,             \* the exception that ended the call, "" if none
    params,          \* self.model's parameters (state_dict)
    attrs,           \* train() has created min_error, best_epoch_index, epoch_loss_list
    min_error,       \* self.min_error
    best_epoch_index,   \* self.best_epoch_index
    epoch_loss_list, \* self.epoch_loss_list
    \* ---- train(): locals
    epoch_index,     \* epochs completed so far (the loop's epoch_index)
    batches,         \* the batches of this epoch not yet processed
    model_error,     \* validate(): the error computed by the last call
    pb,              \* the last process_batch call: batch, operations, losses, result
    \* ---- train(): history
    epoch_batches,   \* what create_batches returned for this epoch
    forwarded,       \* training pairs forwarded in this epoch, in order
    epoch_steps,     \* optimizer steps taken in this epoch
    val_params,      \* the parameters the model had at each validate() call
    \* ---- test(): locals
    index,           \* the loop index of test()
    temp_gt,         \* the block accumulated so far (temp_gt and temp_pre)
    prec_at_10_list, \* one entry per prec_at_ks(.., 10) call: the block it was given
    prec_at_20_list, \* one entry per prec_at_ks(.., 20) call: the block it was given
    visited,         \* test pairs forwarded, in order
    metrics_printed  \* print_evaluation printed mse, rho, tau and p@k

gsvars == <<args, built, feature_count, fwd, hist>>
cfgvars == <<targs, training_graph_index_pairs, test_pairs, test_graphs>>
filevars == <<best_file, save_file>>
objvars == <<params, attrs, min_error, best_epoch_index, epoch_loss_list>>
trainvars == <<epoch_index, batches, model_error, pb,
               epoch_batches, forwarded, epoch_steps, val_params>>
testvars == <<index, temp_gt, prec_at_10_list, prec_at_20_list, visited, metrics_printed>>
trvars == <<cfgvars, filevars, pc, err, objvars, trainvars, testvars>>
vars == <<gsvars, trvars>>

\* ------------------------------------------------------------ arithmetic
RECURSIVE SumSeq(_)
SumSeq(s) == IF s = <<>> THEN 0 ELSE Head(s) + SumSeq(Tail(s))

SeqMin(s) == CHOOSE x \in {s[i] : i \in 1..Len(s)} : \A j \in 1..Len(s) : x <= s[j]
SeqMax(s) == CHOOSE x \in {s[i] : i \in 1..Len(s)} : \A j \in 1..Len(s) : x >= s[j]

\* ======================================================= GraphSimTrainer

\* Model parameters are identified by where they came from and how many
\* optimizer steps were applied since.
InitParams == [base |-> "init", steps |-> 0]
EarlierBest == [base |-> "earlier-best", steps |-> 0]   \* left by an earlier run
EarlierSave == [base |-> "earlier-save", steps |-> 0]   \* left by an earlier save()

NoBatch == [batch |-> <<>>, log |-> <<>>, losses |-> <<>>, loss |-> 0, status |-> "none"]

\* The trainer's fields before train() and test() have run.
TrainerFresh ==
    /\ pc = "idle"
    /\ err = ""
    /\ params = InitParams
    /\ attrs = FALSE
    /\ min_error = 0
    /\ best_epoch_index = 0
    /\ epoch_loss_list = <<>>
    /\ epoch_index = 0
    /\ batches = <<>>
    /\ model_error = 0
    /\ pb = NoBatch
    /\ epoch_batches = <<>>
    /\ forwarded = <<>>
    /\ epoch_steps = 0
    /\ val_params = <<>>
    /\ index = 0
    /\ temp_gt = <<>>
    /\ prec_at_10_list = <<>>
    /\ prec_at_20_list = <<>>
    /\ visited = <<>>
    /\ metrics_printed = FALSE

\* SpecModel looks at a GraphSim alone: no training is configured.
TrainerAbsent ==
    /\ targs = [validate |-> FALSE, epochs |-> 0, batch_size |-> 1]
    /\ training_graph_index_pairs = <<>>
    /\ test_pairs = 0
    /\ test_graphs = 1
    /\ best_file = <<>>
    /\ save_file = <<>>
    /\ TrainerFresh

\* ============================================================== GraphSim

ArgsSet ==
    [tensor_network : BOOLEAN, histogram : BOOLEAN, node_graph_matching : BOOLEAN,
     tensor_neurons : 1..MaxNeurons, bins : BinsVals, hidden_size : 1..MaxHidden]

\* calculate_bottleneck_features: the width given to fully_connected_first.
calculate_bottleneck_features(a) ==
    LET tensor_layer_out == a.tensor_neurons * 2
        base == IF a.histogram THEN tensor_layer_out + a.bins ELSE tensor_layer_out
    IN  IF a.node_graph_matching THEN base + a.hidden_size * 4 ELSE base

\* torch.mm(abstract_features_1, t(abstract_features_2)).view(-1, 1): the inner
\* products of every node embedding of graph 1 with every one of graph 2,
\* row-major.  An embedding is one integer column here.
InnerProducts(af1, af2) ==
    [k \in 1..(Len(af1) * Len(af2)) |->
        af1[((k - 1) \div Len(af2)) + 1] * af2[((k - 1) % Len(af2)) + 1]]

\* torch.histc(scores, bins) with its default min = max = 0 on a non-empty
\* tensor: the range is the data's own minimum and maximum, widened by one on
\* each side when they coincide; the maximum falls in the last bin.
HistcBin(x, lo, hi, bins) ==
    IF x = hi THEN bins - 1 ELSE ((x - lo) * bins) \div (hi - lo)

histc(scores, bins) ==
    LET mn == SeqMin(scores)
        mx == SeqMax(scores)
        lo == IF mn = mx THEN mn - 1 ELSE mn
        hi == IF mn = mx THEN mx + 1 ELSE mx
    IN  [b \in 1..bins |->
            Cardinality({k \in 1..Len(scores) : HistcBin(scores[k], lo, hi, bins) = b - 1})]

\* torch.histc on an empty tensor: the code passes no range, so the library
\* takes the minimum of an empty tensor.  Depending on the torch build that
\* raises RuntimeError or yields all-zero counts.
HistcEmptyOutcomes == {"RuntimeError", "zeros"}

\* calculate_histogram: the set of results the call can produce.  A result is
\* the vector of fractions num[i] / den (hist / torch.sum(hist)); den = 0 is
\* the float division 0 / 0, a NaN in every entry.
calculate_histogram(af1, af2, bins) ==
    LET scores == InnerProducts(af1, af2)
    IN  IF scores = <<>>
        THEN {IF o = "zeros"
              THEN [status |-> "ok", num |-> [b \in 1..bins |-> 0], den |-> 0]
              ELSE [status |-> "RuntimeError", num |-> <<>>, den |-> 0]
              : o \in HistcEmptyOutcomes}
        ELSE LET h == histc(scores, bins)
             IN  {[status |-> "ok", num |-> h, den |-> SumSeq(h)]}

\* Output widths of the sub-layers of layers.py.
TensorNetworkWidth(a) == a.tensor_neurons
NodeGraphMatchingWidth(a) == a.hidden_size * 4

\* forward: the width of the vector handed to fully_connected_first and what
\* becomes of the call, given the histogram result h (used when a.histogram).
forward(a, fc, h) ==
    IF a.histogram /\ h.status # "ok"
    THEN [status |-> h.status, width |-> 0]
    ELSE IF ~a.tensor_network /\ ~a.histogram
    THEN [status |-> "UnboundLocalError", width |-> 0]
    ELSE LET tn == TensorNetworkWidth(a) + TensorNetworkWidth(a)
             w1 == IF a.tensor_network
                   THEN (IF a.histogram THEN tn + Len(h.num) ELSE tn)
                   ELSE Len(h.num)
             w  == IF a.node_graph_matching THEN w1 + NodeGraphMatchingWidth(a) ELSE w1
         IN  IF w = fc
             THEN [status |-> "ok", width |-> w]
             ELSE [status |-> "RuntimeError", width |-> w]

Embeddings(lo) == UNION {[1..n -> (0 - MaxEmb)..MaxEmb] : n \in lo..MaxNodes}

NoCall == [status |-> "none", width |-> 0]
NoHist == [status |-> "none", num |-> <<>>, den |-> 0, n1 |-> 0, n2 |-> 0]

InitGraphSim ==
    /\ TrainerAbsent
    /\ args \in ArgsSet
    /\ built = FALSE
    /\ feature_count = 0
    /\ fwd = NoCall
    /\ hist = NoHist

\* GraphSim.__init__ -> setup_layers -> calculate_bottleneck_features
GraphSimInit ==
    /\ ~built
    /\ built' = TRUE
    /\ feature_count' = calculate_bottleneck_features(args)
    /\ UNCHANGED <<args, fwd, hist, trvars>>

\* GraphSim.calculate_histogram called on two embedding matrices
CalculateHistogram ==
    /\ built
    /\ \E af1 \in Embeddings(0), af2 \in Embeddings(0) :
         \E r \in calculate_histogram(af1, af2, args.bins) :
            hist' = [status |-> r.status, num |-> r.num, den |-> r.den,
                     n1 |-> Len(af1), n2 |-> Len(af2)]
    /\ UNCHANGED <<args, built, feature_count, fwd, trvars>>

\* GraphSim.forward on a pair of loaded (non-empty) graphs
Forward ==
    /\ built
    /\ \E af1 \in Embeddings(1), af2 \in Embeddings(1) :
         \E r \in calculate_histogram(af1, af2, args.bins) :
            /\ fwd' = forward(args, feature_count, r)
            /\ hist' = IF args.histogram
                       THEN [status |-> r.status, num |-> r.num, den |-> r.den,
                             n1 |-> Len(af1), n2 |-> Len(af2)]
                       ELSE hist
    /\ UNCHANGED <<args, built, feature_count, trvars>>

NextModel == GraphSimInit \/ CalculateHistogram \/ Forward

SpecModel == InitGraphSim /\ [][NextModel]_vars

\* ------------------------------------------------- GraphSim: the claims

\* The feature width the configuration calls for: a stream contributes its
\* width only when its flag is set.
EnabledWidth(a) ==
    (IF a.tensor_network THEN 2 * a.tensor_neurons ELSE 0)
    + (IF a.histogram THEN a.bins ELSE 0)
    + (IF a.node_graph_matching THEN 4 * a.hidden_size ELSE 0)

\* C3: at construction feature_count equals the sum of the widths of the
\* enabled streams (2*tensor_neurons if tensor_network, bins if histogram,
\* 4*hidden_size if node_graph_matching), for every configuration with
\* tensor_network or histogram enabled; histogram alone with 8 bins gives 8.
C3_FeatureCountIsEnabledWidth ==
    (built /\ (args.tensor_network \/ args.histogram))
        => feature_count = EnabledWidth(args)

\* C4: for every configuration with tensor_network or histogram enabled, the
\* fused vector of forward() has the width feature_count, so the call reaches
\* the scoring layer and returns its scalar.
C4_ForwardWidthMatches ==
    (fwd.status # "none" /\ (args.tensor_network \/ args.histogram))
        => (fwd.status = "ok" /\ fwd.width = feature_count)

\* C8: calculate_histogram returns `bins` entries that sum to 1 when both
\* graphs have a node, and the all-zero vector, with no division by zero,
\* when either graph has none.
C8_HistogramNormalisedOrZero ==
    hist.status # "none" =>
        /\ hist.status = "ok"
        /\ Len(hist.num) = args.bins
        /\ (hist.n1 >= 1 /\ hist.n2 >= 1)
              => (hist.den > 0 /\ SumSeq(hist.num) = hist.den)
        /\ (hist.n1 = 0 \/ hist.n2 = 0)
              => (hist.den > 0 /\ \A b \in 1..Len(hist.num) : hist.num[b] = 0)

\* The parts of these statements that the code does satisfy.
C3_HoldsWithTensorNetwork ==
    (built /\ args.tensor_network) => feature_count = EnabledWidth(args)
C8_NonEmptySumsToOne ==
    (hist.status # "none" /\ hist.n1 >= 1 /\ hist.n2 >= 1)
        => (hist.status = "ok" /\ Len(hist.num) = args.bins
            /\ hist.den > 0 /\ SumSeq(hist.num) = hist.den)

\* ================================================ GraphSimTrainer.train

\* The configuration GraphSimTrainer.__init__ builds its GraphSim with.
TrainerModelArgs ==
    [tensor_network |-> TRUE, histogram |-> TRUE, node_graph_matching |-> TRUE,
     tensor_neurons |-> 1, bins |-> 1, hidden_size |-> 1]

\* GraphSimTrainer.__init__: the model is built, nothing has run.
TrainerConstructed ==
    /\ args = TrainerModelArgs
    /\ built = TRUE
    /\ feature_count = calculate_bottleneck_features(TrainerModelArgs)
    /\ fwd = NoCall
    /\ hist = NoHist
    /\ TrainerFresh

\* Validation errors (np.mean of calculate_loss over the validation pairs):
\* two ordinary values, the value train() starts min_error at, and one above.
Errors == {1, 2, InitMinError, InitMinError + 1}

LossVals == 1..MaxLoss

\* Python's s[a:b] for 0 <= a <= b
Slice(s, a, b) == SubSeq(s, a + 1, IF b < Len(s) THEN b ELSE Len(s))

\* create_batches: for i in range(0, len(pairs), batch_size): pairs[i : i + batch_size]
RECURSIVE BatchesFrom(_, _, _)
BatchesFrom(pairs, i, batch_size) ==
    IF i >= Len(pairs) THEN <<>>
    ELSE <<Slice(pairs, i, i + batch_size)>> \o BatchesFrom(pairs, i + batch_size, batch_size)

\* Mutant of create_batches: the range stops at the last full batch, so a short
\* final batch is lost.
create_batches_full_only(pairs, batch_size) ==
    BatchesFrom(SubSeq(pairs, 1, (Len(pairs) \div batch_size) * batch_size), 0, batch_size)

create_batches(pairs, batch_size) == BatchesFrom(pairs, 0, batch_size)

Op(name, pair) == [op |-> name, pair |-> pair]

\* process_batch(batch), mse[i] being tnfunc.mse_loss of the i-th pair: the
\* operations performed, in order, and the value returned.
RECURSIVE BatchLoop(_, _, _, _)
BatchLoop(batch, mse, i, acc) ==
    IF i > Len(batch) THEN acc
    ELSE BatchLoop(batch, mse, i + 1,
                   [log |-> Append(acc.log, Op("forward", batch[i])),
                    losses |-> acc.losses + mse[i]])

\* Mutant of process_batch: the summed loss is averaged over the batch.
process_batch_mean(batch, mse) ==
    LET looped == BatchLoop(batch, mse, 1, [log |-> <<Op("zero_grad", 0)>>, losses |-> 0])
    IN  [batch |-> batch,
         log |-> looped.log \o <<Op("backward", 0), Op("step", 0)>>,
         losses |-> mse,
         loss |-> IF batch = <<>> THEN 0 ELSE looped.losses \div Len(batch),
         status |-> IF batch = <<>> THEN "AttributeError" ELSE "ok"]

process_batch(batch, mse) ==
    LET looped == BatchLoop(batch, mse, 1, [log |-> <<Op("zero_grad", 0)>>, losses |-> 0])
    IN  IF batch = <<>>
        \* losses is still the int 0: losses.backward raises
        THEN [batch |-> batch, log |-> looped.log, losses |-> mse, loss |-> 0,
              status |-> "AttributeError"]
        ELSE [batch |-> batch,
              log |-> looped.log \o <<Op("backward", 0), Op("step", 0)>>,
              losses |-> mse,
              loss |-> looped.losses,
              status |-> "ok"]

\* Mutant of validate_epoch_loss_list: the error is recorded only for a new best.
validate_epoch_loss_list_best_only(list, error, best_so_far) ==
    IF error < best_so_far THEN Append(list, error) ELSE list

\* validate(): self.epoch_loss_list.append(model_error)
validate_epoch_loss_list(list, error, best_so_far) == Append(list, error)

\* validate(): if model_error < self.min_error
validate_is_best(error, best_so_far) == error < best_so_far

\* train(), lines 169-181: the optimizer is made and the bookkeeping reset.
TrainBegin ==
    /\ pc = "idle"
    /\ pc' = "loop"
    /\ attrs' = TRUE
    /\ min_error' = InitMinError
    /\ best_epoch_index' = 0
    /\ epoch_loss_list' = <<>>
    /\ epoch_index' = 0
    /\ UNCHANGED <<gsvars, cfgvars, filevars, err, params, batches, model_error, pb,
                   epoch_batches, forwarded, epoch_steps, val_params, testvars>>

\* train(), lines 183-187: an epoch starts, create_batches() is called.
EpochBegin ==
    /\ pc = "loop"
    /\ epoch_index < targs.epochs
    /\ pc' = "batches"
    /\ batches' = create_batches(training_graph_index_pairs, targs.batch_size)
    /\ epoch_batches' = batches'
    /\ forwarded' = <<>>
    /\ epoch_steps' = 0
    /\ UNCHANGED <<gsvars, cfgvars, filevars, err, objvars, epoch_index, model_error,
                   pb, val_params, testvars>>

\* train(), lines 188-193: process_batch on the next batch.
ProcessBatch ==
    /\ pc = "batches"
    /\ batches # <<>>
    /\ \E mse \in [1..Len(Head(batches)) -> LossVals] :
         LET r == process_batch(Head(batches), mse)
             nfwd == Cardinality({i \in 1..Len(r.log) : r.log[i].op = "forward"})
             nstep == Cardinality({i \in 1..Len(r.log) : r.log[i].op = "step"})
         IN  /\ pb' = r
             /\ forwarded' = forwarded \o
                    [i \in 1..nfwd |-> r.log[i + 1].pair]
             /\ epoch_steps' = epoch_steps + nstep
             /\ params' = [params EXCEPT !.steps = @ + nstep]
             /\ IF r.status = "ok"
                THEN /\ batches' = Tail(batches)
                     /\ UNCHANGED <<pc, err>>
                ELSE /\ pc' = "error"
                     /\ err' = r.status
                     /\ UNCHANGED batches
    /\ UNCHANGED <<gsvars, cfgvars, filevars, attrs, min_error, best_epoch_index,
                   epoch_loss_list, epoch_index, model_error, epoch_batches,
                   val_params, testvars>>

\* train(), lines 194-195: the epoch's batches are done; validate(epoch_index)
\* runs when args.validate, computing the error e.
EpochEnd ==
    /\ pc = "batches"
    /\ batches = <<>>
    /\ pc' = "loop"
    /\ epoch_index' = epoch_index + 1
    /\ IF targs.validate
       THEN \E e \in Errors :
              /\ model_error' = e
              /\ val_params' = Append(val_params, params)
              /\ epoch_loss_list' = validate_epoch_loss_list(epoch_loss_list, e, min_error)
              /\ IF validate_is_best(e, min_error)
                 THEN /\ best_epoch_index' = epoch_index
                      /\ min_error' = e
                      /\ best_file' = <<params>>
                 ELSE UNCHANGED <<best_epoch_index, min_error, best_file>>
       ELSE UNCHANGED <<model_error, val_params, epoch_loss_list, best_epoch_index,
                        min_error, best_file>>
    /\ UNCHANGED <<gsvars, cfgvars, save_file, err, params, attrs, batches, pb,
                   epoch_batches, forwarded, epoch_steps, testvars>>

\* train(), lines 197-198: after the last epoch the best checkpoint is loaded
\* when args.validate; torch.load raises when there is no such file.
TrainEnd ==
    /\ pc = "loop"
    /\ epoch_index = targs.epochs
    /\ IF targs.validate /\ best_file = <<>>
       THEN /\ pc' = "error"
            /\ err' = "FileNotFoundError"
            /\ UNCHANGED params
       ELSE /\ pc' = "trained"
            /\ params' = IF targs.validate THEN best_file[1] ELSE params
            /\ UNCHANGED err
    /\ UNCHANGED <<gsvars, cfgvars, filevars, attrs, min_error, best_epoch_index,
                   epoch_loss_list, trainvars, testvars>>

TrainNext == TrainBegin \/ EpochBegin \/ ProcessBatch \/ EpochEnd \/ TrainEnd

\* A trainer about to be trained: any flags and sizes, a best-checkpoint file
\* that is absent or left by an earlier run, a one-query test set.
InitTrain ==
    /\ targs \in [validate : BOOLEAN, epochs : 0..MaxEpochs, batch_size : 1..MaxBatch]
    /\ training_graph_index_pairs \in {[i \in 1..n |-> i] : n \in 0..MaxPairs}
    /\ test_pairs = 0
    /\ test_graphs = 1
    /\ best_file \in {<<>>, <<EarlierBest>>}
    /\ save_file = <<>>
    /\ TrainerConstructed

Spec == InitTrain /\ [][TrainNext]_vars

\* -------------------------------------------------- train(): the claims

RECURSIVE Concat(_)
Concat(ss) == IF ss = <<>> THEN <<>> ELSE Head(ss) \o Concat(Tail(ss))

CeilDiv(n, b) == (n + b - 1) \div b

\* C1: after N >= 1 validate() calls with errors e_1..e_N, the file at
\* best_model_path holds the parameters the model had at an epoch of least
\* error, best_epoch_index is that epoch's 0-based position, and min_error is
\* min(e_1..e_N).
C1_BestCheckpointIsArgmin ==
    (attrs /\ targs.validate /\ Len(epoch_loss_list) >= 1) =>
        /\ min_error = SeqMin(epoch_loss_list)
        /\ \E k \in 1..Len(epoch_loss_list) :
              /\ epoch_loss_list[k] = SeqMin(epoch_loss_list)
              /\ best_epoch_index = k - 1
              /\ best_file = <<val_params[k]>>

\* C2: when train() has returned with args.validate (after at least one
\* epoch), the live parameters are those of the least-error epoch of this run.
C2_LiveParamsAreBestOfRun ==
    (pc = "trained" /\ targs.validate /\ targs.epochs >= 1) =>
        \E k \in 1..Len(val_params) :
            /\ epoch_loss_list[k] = SeqMin(epoch_loss_list)
            /\ params = val_params[k]

\* What holds of C1 and C2 once some epoch's error was below the starting
\* min_error.
C1_HoldsBelowInitMinError ==
    (attrs /\ targs.validate /\ Len(epoch_loss_list) >= 1
       /\ SeqMin(epoch_loss_list) < InitMinError) => C1_BestCheckpointIsArgmin
C2_HoldsBelowInitMinError ==
    (pc = "trained" /\ targs.validate /\ Len(epoch_loss_list) >= 1
       /\ SeqMin(epoch_loss_list) < InitMinError) => C2_LiveParamsAreBestOfRun

\* C6: a process_batch call on a non-empty batch zeroes the gradients once,
\* forwards each pair of the batch in order, runs backward once and steps the
\* optimizer once, in that order, and returns the sum of the per-pair losses.
C6_ProcessBatchOneStepSumLoss ==
    (pb.status # "none" /\ pb.batch # <<>>) =>
        /\ pb.status = "ok"
        /\ pb.log = <<Op("zero_grad", 0)>>
                    \o [i \in 1..Len(pb.batch) |-> Op("forward", pb.batch[i])]
                    \o <<Op("backward", 0), Op("step", 0)>>
        /\ Len(pb.losses) = Len(pb.batch)
        /\ pb.loss = SumSeq(pb.losses)

\* a batch of two pairs whose losses sum to more than either's mean
C6_Witness ==
    /\ pb.status = "ok"
    /\ Len(pb.batch) = 2
    /\ pb.losses[1] # pb.losses[2]
    /\ pb.loss = pb.losses[1] + pb.losses[2]

\* C9: in every epoch create_batches yields ceil(n/b) consecutive non-empty
\* batches, all of b pairs except possibly the last, that concatenate to
\* training_graph_index_pairs; a finished epoch has forwarded every training
\* pair once, in order, and stepped the optimizer ceil(n/b) times.
C9_BatchesPartitionTrainingPairs ==
    LET n == Len(training_graph_index_pairs)
        b == targs.batch_size
        c == CeilDiv(n, b)
    IN  /\ (pc = "batches" \/ epoch_index > 0) =>
              /\ Len(epoch_batches) = c
              /\ Concat(epoch_batches) = training_graph_index_pairs
              /\ \A i \in 1..Len(epoch_batches) :
                    /\ Len(epoch_batches[i]) >= 1
                    /\ Len(epoch_batches[i]) <= b
                    /\ i < Len(epoch_batches) => Len(epoch_batches[i]) = b
        /\ (pc # "batches" /\ epoch_index > 0) =>
              /\ forwarded = training_graph_index_pairs
              /\ epoch_steps = c

\* an epoch over three pairs in batches of two has finished: the last batch
\* was short
C9_Witness ==
    /\ pc = "loop"
    /\ epoch_index >= 1
    /\ Len(training_graph_index_pairs) = 3
    /\ targs.batch_size = 2
    /\ Len(epoch_batches) = 2
    /\ Len(epoch_batches[2]) = 1
    /\ epoch_steps = 2

IsPrefix(s, t) == Len(s) <= Len(t) /\ SubSeq(t, 1, Len(s)) = s

\* C10: once train() has begun, epoch_loss_list has one entry per completed
\* epoch when args.validate and none otherwise; a step leaves it alone or, on
\* completing an epoch, appends that epoch's validation error, new best or
\* not; no entry is ever removed or rewritten.
C10_EpochLossListAppendOnly ==
    [][ /\ attrs' => Len(epoch_loss_list') = (IF targs'.validate THEN epoch_index' ELSE 0)
        /\ attrs => /\ IsPrefix(epoch_loss_list, epoch_loss_list')
                    /\ (epoch_index' = epoch_index + 1 /\ targs.validate)
                          => epoch_loss_list' = Append(epoch_loss_list, model_error')
                    /\ epoch_index' = epoch_index => epoch_loss_list' = epoch_loss_list
      ]_vars

\* two epochs were validated and the second was no new best, yet recorded
C10_Witness ==
    /\ attrs
    /\ targs.validate
    /\ epoch_index = 2
    /\ Len(epoch_loss_list) = 2
    /\ epoch_loss_list[2] >= epoch_loss_list[1]
    /\ best_epoch_index = 0

\* ================================== GraphSimTrainer.save, load and test

\* save(): torch.save(self.model.state_dict(), self.args.save_path)
Save ==
    /\ pc \in {"idle", "trained"}
    /\ save_file # <<params>>
    /\ save_file' = <<params>>
    /\ UNCHANGED <<gsvars, cfgvars, best_file, pc, err, objvars, trainvars, testvars>>

\* load(): the parameters are read from args.load_path, the path save() writes;
\* torch.load raises when there is no such file.
Load ==
    /\ pc = "idle"
    /\ IF save_file = <<>>
       THEN /\ pc' = "error"
            /\ err' = "FileNotFoundError"
            /\ UNCHANGED params
       ELSE /\ params # save_file[1]
            /\ params' = save_file[1]
            /\ UNCHANGED <<pc, err>>
    /\ UNCHANGED <<gsvars, cfgvars, filevars, attrs, min_error, best_epoch_index,
                   epoch_loss_list, trainvars, testvars>>

\* test(), lines 203-212: the arrays and accumulators are created.
TestBegin ==
    /\ pc \in {"idle", "trained"}
    /\ pc' = "testing"
    /\ index' = 0
    /\ temp_gt' = <<>>
    /\ prec_at_10_list' = <<>>
    /\ prec_at_20_list' = <<>>
    /\ visited' = <<>>
    /\ metrics_printed' = FALSE
    /\ UNCHANGED <<gsvars, cfgvars, filevars, err, objvars, trainvars>>

\* test(), lines 214-230: one test pair; a block ends when index + 1 is a
\* multiple of len(test_graphs).
TestPair ==
    /\ pc = "testing"
    /\ index < test_pairs
    /\ visited' = Append(visited, index)
    /\ LET block == Append(temp_gt, index)
       IN  IF (index + 1) % test_graphs = 0
           THEN /\ prec_at_10_list' = Append(prec_at_10_list, block)
                /\ prec_at_20_list' = Append(prec_at_20_list, block)
                /\ temp_gt' = <<>>
           ELSE /\ temp_gt' = block
                /\ UNCHANGED <<prec_at_10_list, prec_at_20_list>>
    /\ index' = index + 1
    /\ UNCHANGED <<gsvars, cfgvars, filevars, pc, err, objvars, trainvars, metrics_printed>>

\* test(), lines 232-237, and print_evaluation: the metrics are printed, then,
\* when args.validate, the fields that only train() creates are read.
TestReport ==
    /\ pc = "testing"
    /\ index = test_pairs
    /\ metrics_printed' = TRUE
    /\ IF targs.validate /\ ~attrs
       THEN /\ pc' = "error"
            /\ err' = "AttributeError"
       ELSE /\ pc' = "tested"
            /\ UNCHANGED err
    /\ UNCHANGED <<gsvars, cfgvars, filevars, objvars, trainvars, index, temp_gt,
                   prec_at_10_list, prec_at_20_list, visited>>

TestNext == Save \/ Load \/ TestBegin \/ TestPair \/ TestReport

\* A trainer about to be tested, trained first or not: a short training
\* configuration, any test set.
InitTest ==
    /\ targs \in [validate : BOOLEAN, epochs : 0..1, batch_size : {1}]
    /\ training_graph_index_pairs = <<1>>
    /\ test_pairs \in 0..MaxTest
    /\ test_graphs \in 1..MaxQuery
    /\ best_file \in {<<>>, <<EarlierBest>>}
    /\ save_file \in {<<>>, <<EarlierSave>>}
    /\ TrainerConstructed

SpecTest == InitTest /\ [][TrainNext \/ TestNext]_vars

\* --------------------------------------------------- test(): the claims

\* C5: when test() reports its metrics, the number of test pairs T is a
\* multiple of B = len(test_graphs), T / B precision-at-10 and T / B
\* precision-at-20 values were computed, each over the B pairs of one block,
\* and nothing is left in the accumulators; when B does not divide T the
\* pass fails instead of reporting.
C5_PrecisionBlocksExact ==
    metrics_printed =>
        /\ test_pairs % test_graphs = 0
        /\ Len(prec_at_10_list) = test_pairs \div test_graphs
        /\ Len(prec_at_20_list) = test_pairs \div test_graphs
        /\ \A k \in 1..Len(prec_at_10_list) :
              /\ prec_at_10_list[k] = [j \in 1..test_graphs |-> (k - 1) * test_graphs + j - 1]
              /\ prec_at_20_list[k] = prec_at_10_list[k]
        /\ temp_gt = <<>>

\* What the code does instead: floor(T / B) values, the pairs after the last
\* full block left in the accumulators and in no precision value.
C5_FloorOfBlocks ==
    metrics_printed =>
        /\ Len(prec_at_10_list) = test_pairs \div test_graphs
        /\ Len(prec_at_20_list) = test_pairs \div test_graphs
        /\ \A k \in 1..Len(prec_at_10_list) :
              /\ prec_at_10_list[k] = [j \in 1..test_graphs |-> (k - 1) * test_graphs + j - 1]
              /\ prec_at_20_list[k] = prec_at_10_list[k]
        /\ Len(temp_gt) = test_pairs % test_graphs

\* C7: test() on a trainer whose train() was never called visits every test
\* pair in index order and completes its report, whatever args.validate is.
C7_TestWithoutTrainCompletes ==
    (pc \in {"tested", "error"} /\ metrics_printed /\ ~attrs) =>
        /\ pc = "tested"
        /\ visited = [i \in 1..test_pairs |-> i - 1]

\* What the code does: without train(), the report completes exactly when
\* args.validate is off.
C7_CompletesIffNoValidate ==
    (pc \in {"tested", "error"} /\ metrics_printed /\ ~attrs) =>
        /\ visited = [i \in 1..test_pairs |-> i - 1]
        /\ (pc = "tested") <=> ~targs.validate

====
